---- MODULE Spec2Model ----
(***************************************************************************)
(* Model of most_frequent_k_elements.py: count_elements builds a frequency *)
(* mapping, partition_kth_value rearranges the unique elements in place so *)
(* that the pivot lands at index k-1, most_frequent_k_elements composes    *)
(* both and slices off the first k elements.                               *)
(*                                                                         *)
(* Python lists are 0-based; the sequences below are 1-based, so list      *)
(* index x is sequence position x + 1 (see At, PyIdx).  A dict is modelled *)
(* as the sequence of its <<key, value>> items in insertion order.         *)
(***************************************************************************)
EXTENDS Integers, Sequences, FiniteSets

\* ------------------------------------------------------------- bounds
\* Elements of the input are 1..NumElems.
NumElems == 3
\* Longest input sequence handed to most_frequent_k_elements.
MaxLen == 6
\* Longest array handed directly to partition_kth_value.
MaxArr == 3
\* Largest key value of the key function handed to partition_kth_value.
MaxKey == 3

Elems == 1..NumElems
\* The iteration counter saturates here (only a never-ending loop gets there).
IterCap == MaxLen + MaxArr + 2

VARIABLES
    S,              \* most_frequent_k_elements: the parameter arr (input sequence)
    k,              \* the parameter k
    ci,             \* count_elements: how many elements of S the for loop has consumed
    frequency_map,  \* the dict, as its items <<num, count>> in insertion order
    arr,            \* partition_kth_value: the list partitioned in place (uniques)
    start,          \* partition_kth_value locals
    end,
    pivot_idx,
    pivot_key,
    left_list_end,
    i,
    pc,             \* position in the code
    result,         \* the list most_frequent_k_elements returns
    outcome,        \* "running", "returned" or the exception raised
    iters,          \* iterations of the while loop started in the current call
    arr0,           \* the array as passed to the current call of partition_kth_value
    calls,          \* calls of partition_kth_value made so far
    prefix1         \* arr[0..k-1] as left by the previous call (re-selection)

vars == <<S, k, ci, frequency_map, arr, start, end, pivot_idx, pivot_key,
          left_list_end, i, pc, result, outcome, iters, arr0, calls, prefix1>>

\* ------------------------------------------------------- Python values
Min(a, b) == IF a < b THEN a ELSE b
Max(a, b) == IF a > b THEN a ELSE b

\* list indexing a[x]: a negative index counts from the end.
PyIdx(a, x) == IF x < 0 THEN x + Len(a) ELSE x
\* a[x] raises IndexError unless -len(a) <= x < len(a).
InRange(a, x) == -Len(a) <= x /\ x < Len(a)
At(a, x) == a[PyIdx(a, x) + 1]

\* a[:kk]: the stop is clamped into 0..len(a), a negative stop counts from the end.
PySliceToShort(a, kk) ==
    LET stop == IF kk < 0 THEN Max(Len(a) + kk, 0) ELSE Min(kk, Len(a))
    IN  SubSeq(a, 1, Max(stop - 1, 0))
PySliceTo(a, kk) ==
    LET stop == IF kk < 0 THEN Max(Len(a) + kk, 0) ELSE Min(kk, Len(a))
    IN  SubSeq(a, 1, stop)

\* dict operations on the item sequence.
HasKey(m, e) == \E j \in 1..Len(m) : m[j][1] = e
ItemOf(m, e) == CHOOSE j \in 1..Len(m) : m[j][1] = e
\* m.get(e, d)
DictGet(m, e, d) == IF HasKey(m, e) THEN m[ItemOf(m, e)][2] ELSE d
\* m[e] = v: a present key keeps its place, a new key goes last.
DictSet(m, e, v) ==
    IF HasKey(m, e) THEN [m EXCEPT ![ItemOf(m, e)] = <<e, v>>]
    ELSE Append(m, <<e, v>>)
\* list(m): the keys in insertion order.
DictKeys(m) == [j \in 1..Len(m) |-> m[j][1]]

\* ------------------------------------------------------ count_elements
\* frequency_map[num] = count + 1, with count = frequency_map.get(num, 0)
CountedOnce(m, num) == DictSet(m, num, 1)
Counted(m, num) == DictSet(m, num, DictGet(m, num, 0) + 1)

\* One pass of the for loop of count_elements.
CountElements ==
    /\ pc = "count"
    /\ ci < Len(S)
    /\ frequency_map' = Counted(frequency_map, S[ci + 1])
    /\ ci' = ci + 1
    /\ UNCHANGED <<S, k, arr, start, end, pivot_idx, pivot_key, left_list_end,
                   i, pc, result, outcome, iters, arr0, calls, prefix1>>

\* count_elements returns; uniques = list(frequency_map); partition_kth_value
\* is called on uniques.
Uniques ==
    /\ pc = "count"
    /\ ci = Len(S)
    /\ arr' = DictKeys(frequency_map)
    /\ arr0' = DictKeys(frequency_map)
    /\ calls' = 1
    /\ pc' = "enter"
    /\ UNCHANGED <<S, k, ci, frequency_map, start, end, pivot_idx, pivot_key,
                   left_list_end, i, result, outcome, iters, prefix1>>

\* -------------------------------------------------- partition_kth_value
\* key=lambda num: frequency_map[num]
key(num) == frequency_map[ItemOf(frequency_map, num)][2]

\* start = 0; end = len(arr); return at once when the range holds <= 1 element.
Enter ==
    /\ pc = "enter"
    /\ start' = 0
    /\ end' = Len(arr)
    /\ iters' = 0
    /\ pc' = IF Len(arr) - 0 <= 1 THEN "ret" ELSE "pivot"
    /\ UNCHANGED <<S, k, ci, frequency_map, arr, pivot_idx, pivot_key,
                   left_list_end, i, result, outcome, arr0, calls, prefix1>>

\* Top of the while loop: the pivot is the last element of the range, the left
\* list is empty, the for loop starts at start.
Pivot ==
    /\ pc = "pivot"
    /\ iters' = Min(iters + 1, IterCap)
    /\ pivot_idx' = end - 1
    /\ IF InRange(arr, end - 1)
       THEN /\ pivot_key' = key(At(arr, end - 1))
            /\ left_list_end' = start
            /\ i' = start
            /\ pc' = "scan"
            /\ UNCHANGED outcome
       ELSE /\ pc' = "raised"
            /\ outcome' = "IndexError"
            /\ UNCHANGED <<pivot_key, left_list_end, i>>
    /\ UNCHANGED <<S, k, ci, frequency_map, arr, start, end, result, arr0,
                   calls, prefix1>>

\* if el_key > pivot_key
GoesLeftGeq(el_key, p_key) == el_key >= p_key
GoesLeftLess(el_key, p_key) == el_key < p_key
GoesLeft(el_key, p_key) == el_key > p_key

\* a[x], a[y] = a[y], a[x]: the right side is read first, then a[x] and a[y]
\* are assigned in that order.
SwapOverwrite(a, x, y) == [a EXCEPT ![PyIdx(a, x) + 1] = At(a, y)]
Swap(a, x, y) ==
    LET ax == At(a, x)
        ay == At(a, y)
        a1 == [a EXCEPT ![PyIdx(a, x) + 1] = ay]
    IN  [a1 EXCEPT ![PyIdx(a, y) + 1] = ax]

\* One pass of the for loop over range(start, pivot_idx), or its end.
Scan ==
    /\ pc = "scan"
    /\ IF i < pivot_idx
       THEN IF ~InRange(arr, i)
            THEN /\ pc' = "raised"
                 /\ outcome' = "IndexError"
                 /\ UNCHANGED <<arr, left_list_end, i>>
            ELSE /\ IF GoesLeft(key(At(arr, i)), pivot_key)
                    THEN /\ arr' = Swap(arr, left_list_end, i)
                         /\ left_list_end' = left_list_end + 1
                    ELSE UNCHANGED <<arr, left_list_end>>
                 /\ i' = i + 1
                 /\ UNCHANGED <<pc, outcome>>
       ELSE /\ pc' = "place"
            /\ UNCHANGED <<arr, left_list_end, i, outcome>>
    /\ UNCHANGED <<S, k, ci, frequency_map, start, end, pivot_idx, pivot_key,
                   result, iters, arr0, calls, prefix1>>

\* Swap the pivot to the end of the left list.
Place ==
    /\ pc = "place"
    /\ IF InRange(arr, left_list_end) /\ InRange(arr, pivot_idx)
       THEN /\ arr' = Swap(arr, left_list_end, pivot_idx)
            /\ pc' = "check"
            /\ UNCHANGED outcome
       ELSE /\ pc' = "raised"
            /\ outcome' = "IndexError"
            /\ UNCHANGED arr
    /\ UNCHANGED <<S, k, ci, frequency_map, start, end, pivot_idx, pivot_key,
                   left_list_end, i, result, iters, arr0, calls, prefix1>>

\* if left_list_end == k - 1: break
FoundEarly(lle, kk) == lle <= kk - 1
Found(lle, kk) == lle = kk - 1

\* The range <<start, end>> of the next iteration.
NarrowKeepPivot(lle, kk, st, en) ==
    IF lle < kk - 1 THEN <<lle, en>> ELSE <<st, lle + 1>>
NarrowWrongSide(lle, kk, st, en) ==
    IF lle < kk - 1 THEN <<st, lle>> ELSE <<lle + 1, en>>
Narrow(lle, kk, st, en) ==
    IF lle < kk - 1 THEN <<lle + 1, en>> ELSE <<st, lle>>

\* Where the pivot ended up relative to k - 1: done, or narrow the range.
Check ==
    /\ pc = "check"
    /\ IF Found(left_list_end, k)
       THEN /\ pc' = "ret"
            /\ UNCHANGED <<start, end>>
       ELSE /\ start' = Narrow(left_list_end, k, start, end)[1]
            /\ end' = Narrow(left_list_end, k, start, end)[2]
            /\ pc' = "pivot"
    /\ UNCHANGED <<S, k, ci, frequency_map, arr, pivot_idx, pivot_key,
                   left_list_end, i, result, outcome, iters, arr0, calls, prefix1>>

\* -------------------------------------------- most_frequent_k_elements
\* return uniques[:k]
Return ==
    /\ pc = "ret"
    /\ result' = PySliceTo(arr, k)
    /\ outcome' = "returned"
    /\ pc' = "done"
    /\ UNCHANGED <<S, k, ci, frequency_map, arr, start, end, pivot_idx,
                   pivot_key, left_list_end, i, iters, arr0, calls, prefix1>>

\* --------------------------------------------------------- re-selection
\* partition_kth_value has returned and is called again on the same list with
\* the same k and key.
Reselect ==
    /\ pc = "ret"
    /\ calls = 1
    /\ prefix1' = PySliceTo(arr, k)
    /\ arr0' = arr
    /\ calls' = 2
    /\ pc' = "enter"
    /\ UNCHANGED <<S, k, ci, frequency_map, arr, start, end, pivot_idx,
                   pivot_key, left_list_end, i, result, outcome, iters>>

\* ------------------------------------------------------- specifications
SeqsUpTo(n) == UNION {[1..m -> Elems] : m \in 0..n}
Distinct(s) == {s[j] : j \in 1..Len(s)}

\* most_frequent_k_elements(S, k) for every S over Elems and every k from one
\* below to one above the valid range 1..u.
Init ==
    /\ S \in SeqsUpTo(MaxLen)
    /\ k \in 0..(Cardinality(Distinct(S)) + 1)
    /\ ci = 0
    /\ frequency_map = <<>>
    /\ arr = <<>>
    /\ start = 0
    /\ end = 0
    /\ pivot_idx = 0
    /\ pivot_key = 0
    /\ left_list_end = 0
    /\ i = 0
    /\ pc = "count"
    /\ result = <<>>
    /\ outcome = "running"
    /\ iters = 0
    /\ arr0 = <<>>
    /\ calls = 0
    /\ prefix1 = <<>>

Next ==
    \/ CountElements
    \/ Uniques
    \/ Enter
    \/ Pivot
    \/ Scan
    \/ Place
    \/ Check
    \/ Return

Spec == Init /\ [][Next]_vars

\* The key mappings handed to partition_kth_value directly: every element has
\* a key in 1..MaxKey.  Elements are numbered by non-decreasing key; arrays
\* range over every sequence of elements, so every pattern of keys and ties
\* along an array occurs.
KeyMaps ==
    {[e \in Elems |-> <<e, f[e]>>] :
        f \in {g \in [Elems -> 1..MaxKey] :
                 \A a, b \in Elems : a <= b => g[a] <= g[b]}}

\* partition_kth_value(arr, k, key) on any array (repeated elements included),
\* called a second time on the array the first call leaves.
InitSel ==
    /\ S = <<>>
    /\ arr \in SeqsUpTo(MaxArr)
    /\ arr0 = arr
    /\ k \in 0..(Len(arr) + 1)
    /\ frequency_map \in KeyMaps
    /\ ci = 0
    /\ start = 0
    /\ end = 0
    /\ pivot_idx = 0
    /\ pivot_key = 0
    /\ left_list_end = 0
    /\ i = 0
    /\ pc = "enter"
    /\ result = <<>>
    /\ outcome = "running"
    /\ iters = 0
    /\ calls = 1
    /\ prefix1 = <<>>

NextSel ==
    \/ Enter
    \/ Pivot
    \/ Scan
    \/ Place
    \/ Check
    \/ Reselect

SpecSel == InitSel /\ [][NextSel]_vars

\* The interpreter always executes the next statement of a running call.
FairSpecSel == SpecSel /\ WF_vars(NextSel)

\* ------------------------------------------------------------ properties
\* Number of positions of s holding e.
Occ(s, e) == Cardinality({j \in 1..Len(s) : s[j] = e})
\* The multiset of the values of s.
BagOf(s) == [v \in Distinct(s) |-> Occ(s, v)]
\* The keys of the elements of s, in order.
KeysOf(s) == [j \in 1..Len(s) |-> key(s[j])]
\* u, the number of distinct elements of the input.
NumUnique == Cardinality(Distinct(S))
\* k is valid for most_frequent_k_elements(S, k).
ValidKS == 1 <= k /\ k <= NumUnique
\* k is valid for the current call partition_kth_value(arr, k, key).
ValidK == 1 <= k /\ k <= Len(arr0)
\* The first n counts of the elements es of S, sorted by descending count.
RECURSIVE TopK(_, _)
TopK(es, n) ==
    IF n = 0 \/ es = {} THEN <<>>
    ELSE LET m == CHOOSE e \in es : \A f \in es : Occ(S, e) >= Occ(S, f)
         IN  <<Occ(S, m)>> \o TopK(es \ {m}, n - 1)
RECURSIVE SumCounts(_)
SumCounts(m) == IF m = <<>> THEN 0 ELSE Head(m)[2] + SumCounts(Tail(m))
\* No element at an index >= k has the key of an element at an index < k.
NoTieAcross(a) ==
    \A x \in 1..Len(a), y \in 1..Len(a) : (x <= k /\ y > k) => key(a[x]) # key(a[y])

\* C1: for valid k, most_frequent_k_elements returns (and does not raise), and
\* the multiset of the frequencies in S of the returned elements is the
\* multiset of the k largest per-element counts of S.
C1_TopKFrequencies ==
    ValidKS =>
        /\ pc # "raised"
        /\ pc = "done" =>
             BagOf([j \in 1..Len(result) |-> Occ(S, result[j])])
                 = BagOf(TopK(Distinct(S), k))
\* The scenario [1,1,1,2,2,3], k = 2 has returned the elements 1 and 2.
C1_Witness ==
    /\ pc = "done"
    /\ S = <<1, 1, 1, 2, 2, 3>>
    /\ k = 2
    /\ Distinct(result) = {1, 2}

\* C2: when partition_kth_value returns, for valid k, every element at an
\* index < k has a key >= the key of every element at an index >= k.
C2_PrefixDominates ==
    (pc = "ret" /\ ValidK) =>
        \A x \in 0..(k - 1), y \in k..(Len(arr) - 1) :
            key(At(arr, x)) >= key(At(arr, y))
\* A call that reordered an array of three elements with two different keys
\* around k = 2 has returned.
C2_Witness ==
    /\ pc = "ret"
    /\ calls = 1
    /\ k = 2
    /\ Len(arr) = 3
    /\ arr # arr0
    /\ key(At(arr, 0)) > key(At(arr, 2))

\* C3: for k outside 1..u, most_frequent_k_elements neither returns a list nor
\* runs on nor raises anything but an invalid-argument error.
C3_InvalidArgument ==
    ~ValidKS =>
        /\ pc # "done"
        /\ pc = "raised" => outcome = "InvalidArgument"
        /\ iters < IterCap

\* C4: once count_elements has returned, the keys of frequency_map are exactly
\* the distinct elements of S (each once), every element maps to the number of
\* positions of S holding it, every count is >= 1 and the counts sum to len(S).
C4_Counts ==
    pc # "count" =>
        /\ Distinct(DictKeys(frequency_map)) = Distinct(S)
        /\ Len(frequency_map) = NumUnique
        /\ \A e \in Distinct(S) :
              /\ DictGet(frequency_map, e, 0) = Occ(S, e)
              /\ DictGet(frequency_map, e, 0) >= 1
        /\ SumCounts(frequency_map) = Len(S)
\* count_elements has returned for an input with a repeated and a single element.
C4_Witness ==
    /\ pc = "enter"
    /\ Len(S) >= 4
    /\ \E e \in Elems : DictGet(frequency_map, e, 0) = 3
    /\ \E e \in Elems : DictGet(frequency_map, e, 0) = 1

\* C5 as stated: after a second call with the same k and key, the set of
\* elements in positions 0..k-1 is the set the first call left there.
C5_SamePrefixSet ==
    (pc = "ret" /\ calls = 2 /\ ValidK) =>
        Distinct(PySliceTo(arr, k)) = Distinct(prefix1)
\* C5 amended: after a second call with the same k and key, the multiset of
\* the keys of the elements in positions 0..k-1 is the one the first call left
\* there; the set of elements there is the same too whenever, after the first
\* call, no element at an index >= k has the key of an element at an index < k.
C5_SamePrefixKeys ==
    (pc = "ret" /\ calls = 2 /\ ValidK) =>
        /\ BagOf(KeysOf(PySliceTo(arr, k))) = BagOf(KeysOf(prefix1))
        /\ NoTieAcross(arr0) =>
              Distinct(PySliceTo(arr, k)) = Distinct(prefix1)
\* A second call that went through two iterations and reordered the array has
\* returned, with no tie across index k.
C5_Witness ==
    /\ pc = "ret"
    /\ calls = 2
    /\ ValidK
    /\ Len(arr) >= 3
    /\ iters >= 2
    /\ arr # arr0
    /\ NoTieAcross(arr0)

\* C6: for valid k, most_frequent_k_elements returns exactly k pairwise
\* distinct elements of S; all the distinct elements when k = u; the element
\* itself when S has one distinct element and k = 1.
C6_KDistinctElements ==
    ValidKS =>
        /\ pc # "raised"
        /\ pc = "done" =>
             /\ Len(result) = k
             /\ Cardinality(Distinct(result)) = k
             /\ Distinct(result) \subseteq Distinct(S)
             /\ k = NumUnique => Distinct(result) = Distinct(S)
             /\ (NumUnique = 1 /\ k = 1) => result = <<S[1]>>
\* A call with k = u = 3 has returned.
C6_Witness ==
    /\ pc = "done"
    /\ NumUnique = 3
    /\ k = 3
    /\ Len(result) = 3

\* C7: for valid k, every call of partition_kth_value returns; every iteration
\* of the while loop that does not break leaves a strictly smaller (and still
\* non-empty) range end - start, the loop never starts more than len(arr)
\* iterations, and the call never stops in an exception.
C7_RangeShrinks ==
    /\ [](ValidK => (iters <= Len(arr) /\ pc # "raised"))
    /\ [](ValidK /\ pc = "enter" => <>(pc = "ret"))
    /\ [][(ValidK /\ pc = "check" /\ pc' = "pivot")
             => (end' - start' < end - start /\ end' - start' >= 1)]_vars
\* A call has broken out of its third iteration.
C7_Witness ==
    /\ pc = "ret"
    /\ ValidK
    /\ iters = 3
    /\ Len(arr) = 3

\* C8: right after the pivot is swapped to left_list_end, the pivot is there,
\* every element of the range [start, end) before it has a key > the pivot's
\* key and every element of the range after it has a key <= the pivot's key.
C8_Partitioned ==
    pc = "check" =>
        \A x \in start..(end - 1) :
            /\ x < left_list_end => key(At(arr, x)) > pivot_key
            /\ x = left_list_end => key(At(arr, x)) = pivot_key
            /\ x > left_list_end => key(At(arr, x)) <= pivot_key
\* The pivot has been placed strictly inside a range, in a second iteration or
\* later.
C8_Witness ==
    /\ pc = "check"
    /\ start < left_list_end
    /\ left_list_end < end - 1
    /\ arr # arr0

\* C9: in every state of a call of partition_kth_value the array has the
\* length and the elements (with multiplicity) of the array passed in, and no
\* step of the call changes frequency_map.
C9_OnlyReorders ==
    /\ [](pc \in {"enter", "pivot", "scan", "place", "check", "ret", "raised", "done"}
            => (Len(arr) = Len(arr0) /\ BagOf(arr) = BagOf(arr0)))
    /\ [][(pc \in {"enter", "pivot", "scan", "place", "check"})
            => (frequency_map' = frequency_map)]_vars
\* A call has returned with the three elements in another order.
C9_Witness ==
    /\ pc = "ret"
    /\ Len(arr) = 3
    /\ arr # arr0
    /\ At(arr, 0) # At(arr0, 0)
    /\ At(arr, 1) # At(arr0, 1)

\* C10: for an array of length >= 2 and valid k, at the top of every
\* iteration 0 <= start <= k-1 < end <= len(arr); pivot_idx, left_list_end and
\* the loop index stay inside the range, and no access raises IndexError.
C10_RangeInvariant ==
    (ValidK /\ Len(arr0) >= 2) =>
        /\ pc = "pivot" =>
             (0 <= start /\ start <= k - 1 /\ k - 1 < end /\ end <= Len(arr))
        /\ pc \in {"scan", "place", "check"} =>
             /\ pivot_idx = end - 1
             /\ start <= left_list_end /\ left_list_end <= i
             /\ start <= i /\ i <= pivot_idx
             /\ 0 <= start /\ pivot_idx < Len(arr)
        /\ pc # "raised"
\* The top of an iteration whose range has been narrowed from both sides.
C10_Witness ==
    /\ pc = "pivot"
    /\ ValidK
    /\ start > 0
    /\ end < Len(arr)

====
